---- MODULE Spec2Model ----
(***************************************************************************)
(* The scrape endpoint of unified_server.py (POST /api/v1/scrape): cache   *)
(* lookup, dispatch to the scraping orchestrator, aggregation, metrics and *)
(* cache store.  Strings are sequences of one-character strings, so that   *)
(* lower(), strip() and ','.join() are computed character by character.    *)
(* An optional value is <<>> (None) or <<v>> (a value v).                  *)
(***************************************************************************)
EXTENDS Integers, Sequences, FiniteSets, TLC

VARIABLES
    cache,            \* self.cache: cache key -> None | <<[value, expired]>>
    cache_hits,       \* Counter cache_hits_total
    cache_misses,     \* Counter cache_misses_total
    scrape_counter,   \* Counter scrape_requests_total, by source label
    scrape_duration,  \* Histogram scrape_duration_seconds, by source label: observations
    pending,          \* handlers suspended at `await orchestrator.scrape_all_sources`
    last,             \* the latest finished exchange: what the client received
    received,         \* number of inbound POST /api/v1/scrape requests
    accepted,         \* number of those that passed ScrapeRequest validation
    ledger            \* what the requests did: lookups that hit, lookups that missed,
                      \* and result records handed to the handler, by source

vars == <<cache, cache_hits, cache_misses, scrape_counter, scrape_duration,
          pending, last, received, accepted, ledger>>

metrics == <<cache_hits, cache_misses, scrape_counter, scrape_duration>>

(***************************************************************************)
(* Bounds of the model.                                                    *)
(***************************************************************************)
MaxRequests == 2

(***************************************************************************)
(* Optional values.                                                        *)
(***************************************************************************)
None == <<>>
Some(v) == <<v>>
Val(o) == o[1]

(***************************************************************************)
(* Strings.                                                                *)
(***************************************************************************)
\* str.lower(), one character
LowerChar(c) == IF c = "A" THEN "a" ELSE c

\* str.lower()
Lower(s) == [i \in 1..Len(s) |-> LowerChar(s[i])]

IsSpace(c) == c = " "

\* str.lstrip()
RECURSIVE LStrip(_)
LStrip(s) == IF s # <<>> /\ IsSpace(Head(s)) THEN LStrip(Tail(s)) ELSE s

\* str.rstrip()
RECURSIVE RStrip(_)
RStrip(s) ==
    IF s # <<>> /\ IsSpace(s[Len(s)]) THEN RStrip(SubSeq(s, 1, Len(s) - 1)) ELSE s

\* str.strip()
Strip(s) == RStrip(LStrip(s))

\* sep.join(parts)
RECURSIVE Join(_, _)
Join(sep, parts) ==
    IF parts = <<>> THEN <<>>
    ELSE IF Len(parts) = 1 THEN parts[1]
    ELSE parts[1] \o sep \o Join(sep, Tail(parts))

(***************************************************************************)
(* ScrapeRequest and the requests the model sends.                         *)
(***************************************************************************)
min_length == 1
max_length == 500

wikipedia == <<"w">>
pubmed == <<"p">>
nosuch == <<"n">>
\* one identifier whose text holds a comma: "w,p"
wikipedia_comma_pubmed == <<"w", ",", "p">>

\* a query of max_length + 1 characters
LongQuery == [i \in 1..(max_length + 1) |-> "a"]

\* "a", and " A " which differs from it by letter case and surrounding whitespace
Queries == { <<"a">>, <<" ", "A", " ">>, <<>>, LongQuery }

SourceLists ==
    { None,
      Some(<<>>),
      Some(<<wikipedia, pubmed>>),
      Some(<<pubmed, wikipedia>>),
      Some(<<wikipedia, nosuch>>),
      Some(<<wikipedia_comma_pubmed>>) }

\* "a" is sent with every source list, the other queries without sources
Requests ==
    { r \in [query : Queries, sources : SourceLists] :
        r.query = <<"a">> \/ r.sources = None }

\* the bug of a query field without min_length: the empty query is let through
ScrapeRequestValidNoMinLength(request) ==
    Len(request.query) <= max_length

\* query: str = Field(..., min_length=1, max_length=500)
ScrapeRequestValid(request) ==
    /\ Len(request.query) >= min_length
    /\ Len(request.query) <= max_length

\* cache_key = f"{request.query.lower().strip()}|{','.join(request.sources or [])}"
cache_key(request) ==
    Strip(Lower(request.query))
        \o <<"|">>
        \o Join(<<",">>, IF request.sources = None THEN <<>> ELSE Val(request.sources))

CacheKeys == { cache_key(r) : r \in { q \in Requests : ScrapeRequestValid(q) } }

(***************************************************************************)
(* The scraping orchestrator (academic_scraper): what scrape_all_sources   *)
(* may return for a request.                                               *)
(***************************************************************************)
RegistryKeys == <<wikipedia, pubmed>>

InRegistry(s) == \E i \in 1..Len(RegistryKeys) : RegistryKeys[i] = s

\* the effective source list: all registered keys, or the requested known ones
Resolve(sources) ==
    IF sources = None THEN RegistryKeys ELSE SelectSeq(Val(sources), InRegistry)

\* a source that was attempted carries its response time; a skipped one fails without
Outcomes == { <<TRUE, Some(1)>>, <<FALSE, Some(1)>>, <<FALSE, None>> }

\* one ScrapingResult
ScrapingResult(source, success, response_time) ==
    [ source |-> source,
      success |-> success,
      data |-> IF success THEN Some("d") ELSE None,
      error |-> IF success THEN None ELSE Some("e"),
      response_time |-> response_time ]

\* every result sequence scrape_all_sources(query, sources) can return
ScrapeAllSources(request) ==
    LET resolved == Resolve(request.sources)
    IN  { [i \in 1..Len(resolved) |->
              ScrapingResult(resolved[i], o[i][1], o[i][2])] :
          o \in [1..Len(resolved) -> Outcomes] }

(***************************************************************************)
(* ScrapeResponse: the aggregation of lines 217-244 and the degraded       *)
(* response of lines 254-261.                                              *)
(***************************************************************************)
\* successful_results = [r for r in results if r.success]
IsSuccess(r) == r.success

successful_results(results) == SelectSeq(results, IsSuccess)

\* the bug of results_data.insert(0, result_dict): the records come out reversed
results_dataPrepended(results) ==
    [i \in 1..Len(results) |->
        LET result == results[Len(results) + 1 - i]
        IN  [ source |-> result.source,
              success |-> result.success,
              data |-> result.data,
              error |-> result.error,
              execution_time |-> result.response_time,
              cached |-> FALSE ]]

\* the bug of leaving the loop at the first failed result
results_dataStopsAtFailure(results) ==
    LET failed == { i \in 1..Len(results) : ~results[i].success }
        n == IF failed = {} THEN Len(results)
             ELSE CHOOSE i \in failed : \A k \in failed : i <= k
    IN  [i \in 1..n |->
            [ source |-> results[i].source,
              success |-> results[i].success,
              data |-> results[i].data,
              error |-> results[i].error,
              execution_time |-> results[i].response_time,
              cached |-> FALSE ]]

\* result_dict, one per result, in the order of results
results_data(results) ==
    [i \in 1..Len(results) |->
        [ source |-> results[i].source,
          success |-> results[i].success,
          data |-> results[i].data,
          error |-> results[i].error,
          execution_time |-> results[i].response_time,
          cached |-> FALSE ]]

\* the bug of reporting success whenever any source was dispatched
AggregateResponseAnyResult(request, results, execution_time) ==
    [ success |-> Len(results) > 0,
      query |-> request.query,
      results |-> results_data(results),
      total_sources |-> Len(results),
      successful_sources |-> Len(successful_results(results)),
      execution_time |-> execution_time ]

\* the bug of reporting every requested identifier, known or not, as dispatched
AggregateResponseCountsRequested(request, results, execution_time) ==
    [ success |-> Len(successful_results(results)) > 0,
      query |-> request.query,
      results |-> results_data(results),
      total_sources |-> IF request.sources = None THEN Len(results)
                        ELSE Len(Val(request.sources)),
      successful_sources |-> Len(successful_results(results)),
      execution_time |-> execution_time ]

\* response = ScrapeResponse(...) of the try block
AggregateResponse(request, results, execution_time) ==
    [ success |-> Len(successful_results(results)) > 0,
      query |-> request.query,
      results |-> results_data(results),
      total_sources |-> Len(results),
      successful_sources |-> Len(successful_results(results)),
      execution_time |-> execution_time ]

\* the bug of reporting the requested sources as dispatched in the degraded response
DegradedResponseCountsRequested(request, execution_time) ==
    [ success |-> FALSE,
      query |-> request.query,
      results |-> <<>>,
      total_sources |-> IF request.sources = None THEN Len(RegistryKeys)
                        ELSE Len(Val(request.sources)),
      successful_sources |-> 0,
      execution_time |-> execution_time ]

\* response = ScrapeResponse(...) of the except block
DegradedResponse(request, execution_time) ==
    [ success |-> FALSE,
      query |-> request.query,
      results |-> <<>>,
      total_sources |-> 0,
      successful_sources |-> 0,
      execution_time |-> execution_time ]

(***************************************************************************)
(* Metrics: the loop of lines 222-225 over the results.                    *)
(***************************************************************************)
SourceLabels == { RegistryKeys[i] : i \in 1..Len(RegistryKeys) }

\* the bug of counting only the successful results
RECURSIVE CountRequestsSuccessOnly(_, _)
CountRequestsSuccessOnly(counter, results) ==
    IF results = <<>> THEN counter
    ELSE CountRequestsSuccessOnly(
            IF Head(results).success
            THEN [counter EXCEPT ![Head(results).source] = @ + 1]
            ELSE counter,
            Tail(results))

\* the bug of a lost update: the counter is written from a stale value (zero)
\* instead of being incremented
RECURSIVE CountRequestsFromStaleValue(_, _)
CountRequestsFromStaleValue(counter, results) ==
    IF results = <<>> THEN counter
    ELSE CountRequestsFromStaleValue(
            [counter EXCEPT ![Head(results).source] = 1], Tail(results))

\* scrape_counter.labels(result.source).inc(), for every result
RECURSIVE CountRequests(_, _)
CountRequests(counter, results) ==
    IF results = <<>> THEN counter
    ELSE CountRequests([counter EXCEPT ![Head(results).source] = @ + 1], Tail(results))

\* if result.response_time is not None: scrape_duration.labels(...).observe(...)
RECURSIVE ObserveDurations(_, _)
ObserveDurations(histogram, results) ==
    IF results = <<>> THEN histogram
    ELSE ObserveDurations(
            IF Head(results).response_time # None
            THEN [histogram EXCEPT ![Head(results).source] = @ + 1]
            ELSE histogram,
            Tail(results))

(***************************************************************************)
(* The cache adapter (cache_manager.CacheManager): get and set with a TTL. *)
(***************************************************************************)
\* self.cache.get(key): the stored value, or None when never set or expired
CacheGet(c, key) ==
    IF c[key] # None /\ ~Val(c[key]).expired THEN Some(Val(c[key]).value) ELSE None

\* self.cache.set(key, value): the entry starts a new TTL
CacheSet(c, key, value) ==
    [c EXCEPT ![key] = Some([value |-> value, expired |-> FALSE])]

(***************************************************************************)
(* time.time() - start_time, as the clock decides it.                      *)
(***************************************************************************)
ExecutionTimes == { 0, 1 }

(***************************************************************************)
(* The state after construction.                                           *)
(***************************************************************************)
Exchange(kind, fault, request, response, dispatched) ==
    [ kind |-> kind, fault |-> fault, request |-> request,
      response |-> response, dispatched |-> dispatched ]

Init ==
    /\ cache = [k \in CacheKeys |-> None]
    /\ cache_hits = 0
    /\ cache_misses = 0
    /\ scrape_counter = [s \in SourceLabels |-> 0]
    /\ scrape_duration = [s \in SourceLabels |-> 0]
    /\ pending = <<>>
    /\ last = Exchange("none", "none", None, None, None)
    /\ received = 0
    /\ accepted = 0
    /\ ledger = [hits |-> 0, misses |-> 0, records |-> [s \in SourceLabels |-> 0]]

\* the ledger's records after a handler was handed these results
Recorded(records, results) ==
    [s \in SourceLabels |->
        records[s] + Cardinality({ i \in 1..Len(results) : results[i].source = s })]

Remove(seq, i) == SubSeq(seq, 1, i - 1) \o SubSeq(seq, i + 1, Len(seq))

(***************************************************************************)
(* POST /api/v1/scrape, up to the first suspension point.                  *)
(***************************************************************************)
\* the body fails validation: FastAPI answers 422 and the handler never runs
RejectRequest(request) ==
    /\ received < MaxRequests
    /\ ~ScrapeRequestValid(request)
    /\ received' = received + 1
    /\ last' = Exchange("rejected", "none", Some(request), None, None)
    /\ UNCHANGED <<cache, metrics, pending, accepted, ledger>>

\* the bug of a hit branch without its return: the miss counter is incremented too
CacheHitFallsThrough(request) ==
    /\ received < MaxRequests
    /\ ScrapeRequestValid(request)
    /\ LET cached == CacheGet(cache, cache_key(request))
       IN  /\ cached # None
           /\ cache_hits' = cache_hits + 1
           /\ last' = Exchange("hit", "none", Some(request), cached, None)
    /\ cache_misses' = cache_misses + 1
    /\ received' = received + 1
    /\ accepted' = accepted + 1
    /\ ledger' = [ledger EXCEPT !.hits = @ + 1]
    /\ UNCHANGED <<cache, scrape_counter, scrape_duration, pending>>

\* lines 201-207: the lookup returns a stored response
CacheHit(request) ==
    /\ received < MaxRequests
    /\ ScrapeRequestValid(request)
    /\ LET cached == CacheGet(cache, cache_key(request))
       IN  /\ cached # None
           /\ cache_hits' = cache_hits + 1
           /\ last' = Exchange("hit", "none", Some(request), cached, None)
    /\ received' = received + 1
    /\ accepted' = accepted + 1
    /\ ledger' = [ledger EXCEPT !.hits = @ + 1]
    /\ UNCHANGED <<cache, cache_misses, scrape_counter, scrape_duration, pending>>

\* the bug of a miss that is dispatched without being counted
CacheMissNotCounted(request) ==
    /\ received < MaxRequests
        /\ ScrapeRequestValid(request)
    /\ CacheGet(cache, cache_key(request)) = None
    /\ pending' = Append(pending, [request |-> request])
    /\ received' = received + 1
    /\ accepted' = accepted + 1
    /\ ledger' = [ledger EXCEPT !.misses = @ + 1]
    /\ UNCHANGED <<cache, metrics, last>>

\* lines 201-214: a miss; the orchestrator is created and the handler awaits it
CacheMiss(request) ==
    /\ received < MaxRequests
        /\ ScrapeRequestValid(request)
    /\ CacheGet(cache, cache_key(request)) = None
    /\ cache_misses' = cache_misses + 1
    /\ pending' = Append(pending, [request |-> request])
    /\ received' = received + 1
    /\ accepted' = accepted + 1
    /\ ledger' = [ledger EXCEPT !.misses = @ + 1]
    /\ UNCHANGED <<cache, cache_hits, scrape_counter, scrape_duration, last>>

\* the bug of counting the miss inside the try block, after the orchestrator is created
OrchestratorUnavailableNotCounted(request, execution_time) ==
    /\ received < MaxRequests
    /\ ScrapeRequestValid(request)
    /\ CacheGet(cache, cache_key(request)) = None
    /\ last' = Exchange("degraded", "orchestrator", Some(request),
                        Some(DegradedResponse(request, execution_time)), None)
    /\ received' = received + 1
    /\ accepted' = accepted + 1
    /\ ledger' = [ledger EXCEPT !.misses = @ + 1]
    /\ UNCHANGED <<cache, metrics, pending>>

\* lines 201-213, 250-262: a miss, and create_scraping_orchestrator() raises
OrchestratorUnavailable(request, execution_time) ==
    /\ received < MaxRequests
    /\ ScrapeRequestValid(request)
    /\ CacheGet(cache, cache_key(request)) = None
    /\ cache_misses' = cache_misses + 1
    /\ last' = Exchange("degraded", "orchestrator", Some(request),
                        Some(DegradedResponse(request, execution_time)), None)
    /\ received' = received + 1
    /\ accepted' = accepted + 1
    /\ ledger' = [ledger EXCEPT !.misses = @ + 1]
    /\ UNCHANGED <<cache, cache_hits, scrape_counter, scrape_duration, pending>>

(***************************************************************************)
(* POST /api/v1/scrape, after `await orchestrator.scrape_all_sources`.     *)
(***************************************************************************)
\* the bug of returning the fresh response without storing it
ScrapeCompletedNotStored(i, results, execution_time) ==
    LET p == pending[i]
        response == AggregateResponse(p.request, results, execution_time)
    IN  /\ scrape_counter' = CountRequests(scrape_counter, results)
        /\ scrape_duration' = ObserveDurations(scrape_duration, results)
        /\ last' = Exchange("fresh", "none", Some(p.request), Some(response),
                            Some(results))
        /\ pending' = Remove(pending, i)
        /\ ledger' = [ledger EXCEPT !.records = Recorded(@, results)]
        /\ UNCHANGED <<cache, cache_hits, cache_misses, received, accepted>>

\* the bug of a store that merges the records into the entry already under the key
ScrapeCompletedMergesEntry(i, results, execution_time) ==
    LET p == pending[i]
        response == AggregateResponse(p.request, results, execution_time)
        entry == cache[cache_key(p.request)]
        stored == IF entry = None THEN response
                  ELSE [response EXCEPT !.results = Val(entry).value.results \o @]
    IN  /\ scrape_counter' = CountRequests(scrape_counter, results)
        /\ scrape_duration' = ObserveDurations(scrape_duration, results)
        /\ cache' = CacheSet(cache, cache_key(p.request), stored)
        /\ last' = Exchange("fresh", "none", Some(p.request), Some(response),
                            Some(results))
        /\ pending' = Remove(pending, i)
        /\ ledger' = [ledger EXCEPT !.records = Recorded(@, results)]
        /\ UNCHANGED <<cache_hits, cache_misses, received, accepted>>

\* the bug of storing a response only when some source succeeded
ScrapeCompletedStoresSuccessOnly(i, results, execution_time) ==
    LET p == pending[i]
        response == AggregateResponse(p.request, results, execution_time)
    IN  /\ scrape_counter' = CountRequests(scrape_counter, results)
        /\ scrape_duration' = ObserveDurations(scrape_duration, results)
        /\ cache' = IF response.success
                    THEN CacheSet(cache, cache_key(p.request), response)
                    ELSE cache
        /\ last' = Exchange("fresh", "none", Some(p.request), Some(response),
                            Some(results))
        /\ pending' = Remove(pending, i)
        /\ ledger' = [ledger EXCEPT !.records = Recorded(@, results)]
        /\ UNCHANGED <<cache_hits, cache_misses, received, accepted>>

\* lines 214-248: the results arrive, are aggregated, counted, stored and returned
ScrapeCompleted(i, results, execution_time) ==
    LET p == pending[i]
        response == AggregateResponse(p.request, results, execution_time)
    IN  /\ scrape_counter' = CountRequests(scrape_counter, results)
        /\ scrape_duration' = ObserveDurations(scrape_duration, results)
        /\ cache' = CacheSet(cache, cache_key(p.request), response)
        /\ last' = Exchange("fresh", "none", Some(p.request), Some(response),
                            Some(results))
        /\ pending' = Remove(pending, i)
        /\ ledger' = [ledger EXCEPT !.records = Recorded(@, results)]
        /\ UNCHANGED <<cache_hits, cache_misses, received, accepted>>

\* the bug of storing the degraded response under the key of the request
ScrapeFailedStoresDegraded(i, execution_time) ==
    LET p == pending[i]
        response == DegradedResponse(p.request, execution_time)
    IN  /\ cache' = CacheSet(cache, cache_key(p.request), response)
        /\ last' = Exchange("degraded", "orchestrator", Some(p.request),
                            Some(response), None)
        /\ pending' = Remove(pending, i)
        /\ UNCHANGED <<metrics, received, accepted, ledger>>

\* lines 214, 250-262: scrape_all_sources raises
ScrapeFailed(i, execution_time) ==
    LET p == pending[i]
    IN  /\ last' = Exchange("degraded", "orchestrator", Some(p.request),
                            Some(DegradedResponse(p.request, execution_time)), None)
        /\ pending' = Remove(pending, i)
        /\ UNCHANGED <<cache, metrics, received, accepted, ledger>>

(***************************************************************************)
(* Time: the TTL of a cache entry elapses.                                 *)
(***************************************************************************)
Expire(key) ==
    /\ cache[key] # None
    /\ ~Val(cache[key]).expired
    /\ cache' = [cache EXCEPT ![key] = Some([Val(@) EXCEPT !.expired = TRUE])]
    /\ UNCHANGED <<metrics, pending, last, received, accepted, ledger>>

Next ==
    \/ \E request \in Requests : RejectRequest(request)
    \/ \E request \in Requests : CacheHit(request)
    \/ \E request \in Requests : CacheMiss(request)
    \/ \E request \in Requests, execution_time \in ExecutionTimes :
          OrchestratorUnavailable(request, execution_time)
    \/ \E i \in 1..Len(pending), execution_time \in ExecutionTimes :
          \E results \in ScrapeAllSources(pending[i].request) :
             ScrapeCompleted(i, results, execution_time)
    \/ \E i \in 1..Len(pending), execution_time \in ExecutionTimes :
          ScrapeFailed(i, execution_time)
    \/ \E key \in CacheKeys : Expire(key)

Spec == Init /\ [][Next]_vars

(***************************************************************************)
(* The same server with a cache adapter that may raise (CacheFailure).     *)
(***************************************************************************)
\* line 203 is outside the try block: the exception leaves the handler (HTTP 500)
CacheGetRaises(request) ==
    /\ received < MaxRequests
    /\ ScrapeRequestValid(request)
    /\ last' = Exchange("error", "cache_get", Some(request), None, None)
    /\ received' = received + 1
    /\ accepted' = accepted + 1
    /\ UNCHANGED <<cache, metrics, pending, ledger>>

\* line 245 is inside the try block: the except block answers with the degraded response
CacheSetRaises(i, results, execution_time) ==
    LET p == pending[i]
    IN  /\ scrape_counter' = CountRequests(scrape_counter, results)
        /\ scrape_duration' = ObserveDurations(scrape_duration, results)
        /\ last' = Exchange("degraded", "cache_set", Some(p.request),
                            Some(DegradedResponse(p.request, execution_time)),
                            Some(results))
        /\ pending' = Remove(pending, i)
        /\ ledger' = [ledger EXCEPT !.records = Recorded(@, results)]
        /\ UNCHANGED <<cache, cache_hits, cache_misses, received, accepted>>

NextCacheFailure ==
    \/ Next
    \/ \E request \in Requests : CacheGetRaises(request)
    \/ \E i \in 1..Len(pending), execution_time \in ExecutionTimes :
          \E results \in ScrapeAllSources(pending[i].request) :
             CacheSetRaises(i, results, execution_time)

SpecCacheFailure == Init /\ [][NextCacheFailure]_vars

(***************************************************************************)
(* The same server with the fan-out of scrape_all_sources made visible:    *)
(* one invocation per resolved source, started together, each completing   *)
(* or failing on its own, joined when all have returned.  No TTL elapses   *)
(* here: expiry is followed in Spec.                                       *)
(***************************************************************************)
\* the handler of a miss, with one slot per dispatched scraper, none returned yet
Dispatched(request) ==
    [ request |-> request,
      tasks |-> [j \in 1..Len(Resolve(request.sources)) |-> None] ]

\* lines 201-214: a miss; the handler awaits the invocations it has started.
\* The fan-out is followed one dispatch at a time (overlapping dispatches are in Spec)
Dispatch(request) ==
    /\ received < MaxRequests
    /\ pending = <<>>
    /\ ScrapeRequestValid(request)
    /\ CacheGet(cache, cache_key(request)) = None
    /\ cache_misses' = cache_misses + 1
    /\ pending' = Append(pending, Dispatched(request))
    /\ received' = received + 1
    /\ accepted' = accepted + 1
    /\ ledger' = [ledger EXCEPT !.misses = @ + 1]
    /\ UNCHANGED <<cache, cache_hits, scrape_counter, scrape_duration, last>>

\* the invocations of a dispatch that have returned
Returned(p) == { j \in 1..Len(p.tasks) : p.tasks[j] # None }

\* the scraper of the j-th resolved source returns or fails; all started together,
\* so its response time is its rank among the completions of the dispatch
ScraperReturns(i, j, success, timed) ==
    LET p == pending[i]
        response_time == IF timed THEN Some(Cardinality(Returned(p)) + 1) ELSE None
        result == ScrapingResult(Resolve(p.request.sources)[j], success, response_time)
    IN  /\ p.tasks[j] = None
        /\ success => timed
        /\ pending' = [pending EXCEPT ![i].tasks[j] = Some(result)]
        /\ UNCHANGED <<cache, metrics, last, received, accepted, ledger>>

\* every invocation of the dispatch has returned
Joined(p) == \A j \in 1..Len(p.tasks) : p.tasks[j] # None

\* the results in the order of the resolved source list
Gathered(p) == [j \in 1..Len(p.tasks) |-> Val(p.tasks[j])]

\* the bug of answering as soon as one invocation has returned, with what has returned
GatherFirstCompleted(i, execution_time) ==
    LET HasReturned(task) == task # None
        returned == SelectSeq(pending[i].tasks, HasReturned)
    IN  /\ returned # <<>>
        /\ ScrapeCompleted(i, [k \in 1..Len(returned) |-> Val(returned[k])],
                           execution_time)

\* lines 214-248: the await returns with all the results; they are aggregated,
\* counted, stored and returned
Gather(i, execution_time) ==
    /\ Joined(pending[i])
    /\ ScrapeCompleted(i, Gathered(pending[i]), execution_time)

NextFanOut ==
    \/ \E request \in Requests : RejectRequest(request)
    \/ \E request \in Requests : CacheHit(request)
    \/ \E request \in Requests : Dispatch(request)
    \/ \E request \in Requests, execution_time \in ExecutionTimes :
          OrchestratorUnavailable(request, execution_time)
    \/ \E i \in 1..Len(pending) :
          \E j \in 1..Len(pending[i].tasks), success \in BOOLEAN, timed \in BOOLEAN :
             ScraperReturns(i, j, success, timed)
    \/ \E i \in 1..Len(pending), execution_time \in ExecutionTimes :
          Gather(i, execution_time)
    \/ \E i \in 1..Len(pending), execution_time \in ExecutionTimes :
          ScrapeFailed(i, execution_time)

SpecFanOut == Init /\ [][NextFanOut]_vars

(***************************************************************************)
(* Vocabulary of the properties.                                           *)
(***************************************************************************)
\* this step lets a validated request into the handler
Arrival == accepted' = accepted + 1

\* the request that arrives in this step
Arrived ==
    IF Len(pending') > Len(pending) THEN pending'[Len(pending')].request
    ELSE Val(last'.request)

\* this step starts a dispatch: a handler is now waiting for the orchestrator
Dispatches == Len(pending') = Len(pending) + 1

\* no dispatch is started and no per-source metric moves
NoScraperInvoked == pending' = pending /\ UNCHANGED <<scrape_counter, scrape_duration>>

\* the entry of a key, if any, is within its TTL
NotExpired(key) == cache[key] = None \/ ~Val(cache[key]).expired

\* the entry of a key exists and its TTL has elapsed
Expired(key) == cache[key] # None /\ Val(cache[key]).expired

\* the same request arrives right after it was answered, with nothing else in flight
RepeatsLast ==
    /\ Arrival
    /\ pending = <<>>
    /\ last.response # None
    /\ Arrived = Val(last.request)

Occurrences(seq, x) == Cardinality({ i \in 1..Len(seq) : seq[i] = x })

\* two source lists with the same identifiers, in any order
SameIdentifiers(a, b) ==
    /\ Len(a) = Len(b)
    /\ \A i \in 1..Len(a) : Occurrences(a, a[i]) = Occurrences(b, a[i])

(***************************************************************************)
(* C1: every response the endpoint returns, fresh, cached or degraded, has *)
(* successful_sources <= total_sources and success exactly when            *)
(* successful_sources > 0.                                                 *)
(***************************************************************************)
C1_ResponseCounts ==
    last.response # None =>
        LET r == Val(last.response)
        IN  /\ r.successful_sources <= r.total_sources
            /\ r.success = (r.successful_sources > 0)

\* a cached response with one success among two sources reaches a client
C1_Witness ==
    /\ last.kind = "hit"
    /\ Val(last.response).total_sources = 2
    /\ Val(last.response).successful_sources = 1

C3_SourceOrderSharesEntry ==
    [][ ( /\ Arrival
          /\ pending = <<>>
          /\ last.kind = "fresh"
          /\ ~Val(cache[cache_key(Val(last.request))]).expired
          /\ Strip(Lower(Arrived.query)) = Strip(Lower(Val(last.request).query))
          /\ Arrived.sources # None
          /\ Val(last.request).sources # None
          /\ SameIdentifiers(Val(Arrived.sources), Val(Val(last.request).sources)) )
            => (cache_hits' = cache_hits + 1 /\ NoScraperInvoked) ]_vars

(***************************************************************************)
(* C4: when the cache adapter raises on get or on set, the request still   *)
(* returns the response aggregated from the results of the scrapers.       *)
(***************************************************************************)
C4_CacheFailureIsMiss ==
    last.fault \in {"cache_get", "cache_set"} =>
        /\ last.response # None
        /\ last.dispatched # None
        /\ Val(last.response).total_sources = Len(Val(last.dispatched))
        /\ Val(last.response).results = results_data(Val(last.dispatched))

(***************************************************************************)
(* C5: every validated request increments exactly one of the hit and the   *)
(* miss counter, once: the hit counter when the lookup returns a stored    *)
(* response, the miss counter otherwise; nothing else moves them, and      *)
(* hits + misses is the number of validated requests.                      *)
(***************************************************************************)
C5_ExactlyOneCounter ==
    /\ [](cache_hits + cache_misses = accepted)
    /\ [][ /\ Arrival =>
                IF CacheGet(cache, cache_key(Arrived)) # None
                THEN cache_hits' = cache_hits + 1 /\ cache_misses' = cache_misses
                ELSE cache_misses' = cache_misses + 1 /\ cache_hits' = cache_hits
           /\ ~Arrival => UNCHANGED <<cache_hits, cache_misses>> ]_vars

\* one hit and one miss were counted for two validated requests
C5_Witness == cache_hits = 1 /\ cache_misses = 1 /\ accepted = 2

(***************************************************************************)
(* C6: when the orchestrator cannot be created or scrape_all_sources       *)
(* raises, the client receives a response with success false, no results,  *)
(* total_sources 0, successful_sources 0 and an execution time.            *)
(***************************************************************************)
C6_DegradedResponse ==
    last.fault = "orchestrator" =>
        /\ last.response # None
        /\ LET r == Val(last.response)
           IN  /\ r.success = FALSE
               /\ r.results = <<>>
               /\ r.total_sources = 0
               /\ r.successful_sources = 0
               /\ r.execution_time \in Nat
               /\ r.query = Val(last.request).query

\* the orchestrator failed after one unit of time, for a request that named two sources
C6_Witness ==
    /\ last.fault = "orchestrator"
    /\ Val(last.request).sources = Some(<<wikipedia, pubmed>>)
    /\ Val(last.response).execution_time = 1

(***************************************************************************)
(* C7: on a cache hit the stored response is returned and only the hit     *)
(* counter changes, by one: no dispatch, no per-source metric, no miss, no *)
(* change of the cache.                                                    *)
(***************************************************************************)
C7_HitChangesOnlyHitCounter ==
    [][ (Arrival /\ CacheGet(cache, cache_key(Arrived)) # None)
            => /\ last'.response = CacheGet(cache, cache_key(Arrived))
               /\ cache_hits' = cache_hits + 1
               /\ NoScraperInvoked
               /\ UNCHANGED <<cache_misses, cache>> ]_vars

\* a stored response with one wikipedia result was served from the cache
C7_Witness ==
    /\ last.kind = "hit"
    /\ cache_hits = 1
    /\ cache_misses = 1
    /\ scrape_counter[wikipedia] = 1
    /\ Val(last.response).total_sources = 1

(***************************************************************************)
(* C8: when the results of a dispatch are aggregated, the request counter  *)
(* of each source grows by the number of results of that source, and its   *)
(* histogram by the number of those results that carry a response time.    *)
(***************************************************************************)
C8_MetricsPerResult ==
    [][ (Len(pending') < Len(pending) /\ last'.dispatched # None)
            => LET results == Val(last'.dispatched)
               IN  \A s \in SourceLabels :
                     /\ scrape_counter'[s] = scrape_counter[s]
                          + Cardinality({ i \in 1..Len(results) :
                                            results[i].source = s })
                     /\ scrape_duration'[s] = scrape_duration[s]
                          + Cardinality({ i \in 1..Len(results) :
                                            /\ results[i].source = s
                                            /\ results[i].response_time # None }) ]_vars

\* wikipedia succeeded with a response time, pubmed failed without one
C8_Witness ==
    /\ last.kind = "fresh"
    /\ Len(Val(last.dispatched)) = 2
    /\ scrape_counter[wikipedia] = 1
    /\ scrape_counter[pubmed] = 1
    /\ scrape_duration[wikipedia] = 1
    /\ scrape_duration[pubmed] = 0

(***************************************************************************)
(* C9: a request whose key holds an entry with an elapsed TTL is a miss:   *)
(* the miss counter is incremented, nothing is served from the cache, and  *)
(* a fresh dispatch is started (or the orchestrator is unavailable); the   *)
(* results of that dispatch are counted per source again.                  *)
(***************************************************************************)
C9_ExpiredEntryIsMiss ==
    [][ /\ (Arrival /\ Expired(cache_key(Arrived)))
            => /\ cache_misses' = cache_misses + 1
               /\ cache_hits' = cache_hits
               /\ Dispatches \/ last'.fault = "orchestrator"
        /\ (Len(pending') < Len(pending) /\ last'.kind = "fresh")
            => \A i \in 1..Len(Val(last'.dispatched)) :
                  scrape_counter'[Val(last'.dispatched)[i].source]
                     > scrape_counter[Val(last'.dispatched)[i].source] ]_vars

\* an entry has expired, and a request for its key has missed and is being dispatched
C9_Witness ==
    /\ cache_misses = 2
    /\ cache_hits = 0
    /\ Len(pending) = 1
    /\ Expired(cache_key(pending[1].request))
    /\ scrape_counter[wikipedia] = 1

(***************************************************************************)
(* C10: the query field of every response is the query of the request it   *)
(* answers, also when it is served from the cache.                         *)
(***************************************************************************)
C10_QueryEchoed ==
    last.response # None => Val(last.response).query = Val(last.request).query

(***************************************************************************)
(* C11: a request that names unknown source identifiers is not rejected    *)
(* and is answered; when its results are aggregated, total_sources is the  *)
(* number of requested identifiers that are in the registry, there is one  *)
(* result record for each of them, and none for an unknown identifier.     *)
(***************************************************************************)
C11_UnknownSourcesDropped ==
    (last.request # None /\ Val(last.request).sources # None
                         /\ ScrapeRequestValid(Val(last.request))) =>
        LET requested == Val(Val(last.request).sources)
            known == { i \in 1..Len(requested) : InRegistry(requested[i]) }
        IN  /\ last.kind # "rejected"
            /\ last.response # None
            /\ last.kind = "fresh" =>
                 LET r == Val(last.response)
                 IN  /\ r.total_sources = Cardinality(known)
                     /\ Len(r.results) = Cardinality(known)
                     /\ \A j \in 1..Len(r.results) :
                           /\ InRegistry(r.results[j].source)
                           /\ \E i \in known : requested[i] = r.results[j].source

\* [wikipedia, nosuch] was dispatched: one source, one wikipedia record
C11_Witness ==
    /\ last.kind = "fresh"
    /\ Val(last.request).sources = Some(<<wikipedia, nosuch>>)
    /\ Val(last.response).total_sources = 1
    /\ Val(last.response).results[1].source = wikipedia

(***************************************************************************)
(* C12: an inbound request whose query is empty or longer than 500         *)
(* characters is rejected without a response body of the endpoint, and the *)
(* step that receives it changes neither the cache, nor the hit and miss   *)
(* counters, nor a per-source metric, nor starts a dispatch.               *)
(***************************************************************************)
C12_MalformedRequestRejected ==
    [][ ( /\ received' = received + 1
          /\ \/ Len(Arrived.query) < min_length
             \/ Len(Arrived.query) > max_length )
            => /\ last'.kind = "rejected"
               /\ last'.response = None
               /\ accepted' = accepted
               /\ UNCHANGED <<cache, cache_hits, cache_misses, scrape_counter,
                              scrape_duration, pending>> ]_vars

\* an oversized query is rejected while an earlier request is being dispatched
C12_Witness ==
    /\ last.kind = "rejected"
    /\ Len(Val(last.request).query) = max_length + 1
    /\ Len(pending) = 1
    /\ received = 2
    /\ accepted = 1
    /\ cache_misses = 1

(***************************************************************************)
(* C13: the results of a freshly computed response list the sources of the *)
(* resolved source list in its order, one record per source, whatever the  *)
(* order in which the invocations returned, and total_sources is the       *)
(* length of that sequence.                                                *)
(***************************************************************************)
C13_DispatchOrder ==
    last.kind = "fresh" =>
        LET resolved == Resolve(Val(last.request).sources)
            r == Val(last.response)
        IN  /\ Len(r.results) = Len(resolved)
            /\ \A j \in 1..Len(resolved) : r.results[j].source = resolved[j]
            /\ r.total_sources = Len(r.results)

\* pubmed returned first and wikipedia second; wikipedia is still listed first
C13_Witness ==
    /\ last.kind = "fresh"
    /\ Val(last.request).sources = Some(<<wikipedia, pubmed>>)
    /\ LET r == Val(last.response)
       IN  /\ r.total_sources = 2
           /\ r.successful_sources = 2
           /\ r.results[1].source = wikipedia
           /\ r.results[1].execution_time = Some(2)
           /\ r.results[2].source = pubmed
           /\ r.results[2].execution_time = Some(1)

(***************************************************************************)
(* C14: in a freshly computed response every dispatched source has its     *)
(* record, also when some of them failed; the success and data of each     *)
(* record are those its own scraper returned, and a failed scraper is a    *)
(* record with success false, an error and no data.                        *)
(***************************************************************************)
C14_FanOutIsolation ==
    last.kind = "fresh" =>
        LET resolved == Resolve(Val(last.request).sources)
            invoked == Val(last.dispatched)
            r == Val(last.response)
        IN  /\ Len(invoked) = Len(resolved)
            /\ Len(r.results) = Len(resolved)
            /\ \A j \in 1..Len(resolved) :
                  /\ r.results[j].success = invoked[j].success
                  /\ r.results[j].data = invoked[j].data
                  /\ invoked[j].success =>
                        r.results[j].data # None /\ r.results[j].error = None
                  /\ ~invoked[j].success =>
                        r.results[j].data = None /\ r.results[j].error # None

\* pubmed failed first; wikipedia returned after it, with its data
C14_Witness ==
    /\ last.kind = "fresh"
    /\ LET r == Val(last.response)
       IN  /\ r.success
           /\ r.successful_sources = 1
           /\ r.results[1].source = wikipedia
           /\ r.results[1].success
           /\ r.results[1].data # None
           /\ r.results[1].execution_time = Some(2)
           /\ r.results[2].source = pubmed
           /\ ~r.results[2].success
           /\ r.results[2].error # None
           /\ r.results[2].execution_time = Some(1)

(***************************************************************************)
(* C15: a step that answers a miss with a freshly computed response is     *)
(* taken by a handler all of whose invocations have returned; the response *)
(* holds one record per invocation, and it is the value stored under the   *)
(* key of the request.  No other step stores into the cache.               *)
(***************************************************************************)
C15_WaitForAll ==
    [][ /\ (Len(pending') < Len(pending) /\ last'.kind = "fresh")
            => \E i \in 1..Len(pending) :
                  LET p == pending[i]
                      r == Val(last'.response)
                  IN  /\ pending' = Remove(pending, i)
                      /\ p.request = Val(last'.request)
                      /\ \A j \in 1..Len(p.tasks) : p.tasks[j] # None
                      /\ Len(p.tasks) = Len(Resolve(p.request.sources))
                      /\ Len(r.results) = Len(p.tasks)
                      /\ \A j \in 1..Len(p.tasks) :
                            r.results[j].source = Val(p.tasks[j]).source
                      /\ cache'[cache_key(p.request)]
                            = Some([value |-> r, expired |-> FALSE])
        /\ ~(Len(pending') < Len(pending) /\ last'.kind = "fresh")
            => cache' = cache ]_vars

\* all registered sources were dispatched and joined; the response is stored
C15_Witness ==
    /\ last.kind = "fresh"
    /\ pending = <<>>
    /\ Val(last.request).sources = None
    /\ Len(Val(last.response).results) = Len(RegistryKeys)
    /\ cache[cache_key(Val(last.request))]
          = Some([value |-> Val(last.response), expired |-> FALSE])
    /\ scrape_counter[wikipedia] = 1
    /\ scrape_counter[pubmed] = 1

\* a response whose counts agree with its own records
WellFormed(r) ==
    /\ r.total_sources = Len(r.results)
    /\ r.successful_sources
          = Cardinality({ j \in 1..Len(r.results) : r.results[j].success })
    /\ r.success = (r.successful_sources > 0)
    /\ r.execution_time \in Nat

(***************************************************************************)
(* C16: requests for one key may be in flight together, each having missed *)
(* and each computing its own response.  Every response returned is well   *)
(* formed; every cache entry is one whole well-formed response stored      *)
(* under the key of its own query; and the entry under the key of the      *)
(* request that finished last is exactly the response it returned.         *)
(***************************************************************************)
C16_ConcurrentIdenticalRequests ==
    /\ last.response # None => WellFormed(Val(last.response))
    /\ \A k \in CacheKeys :
          cache[k] # None =>
             /\ WellFormed(Val(cache[k]).value)
             /\ \E i \in 1..Len(k) :
                   /\ k[i] = "|"
                   /\ SubSeq(k, 1, i - 1) = Strip(Lower(Val(cache[k]).value.query))
    /\ last.kind = "fresh" =>
          LET entry == cache[cache_key(Val(last.request))]
          IN  entry # None /\ Val(entry).value = Val(last.response)

\* two requests for one key both missed; one has finished and stored its response
\* (the entry is within its TTL, so it was stored after the other one had missed)
C16_Witness ==
    /\ received = 2
    /\ cache_misses = 2
    /\ cache_hits = 0
    /\ Len(pending) = 1
    /\ last.kind = "fresh"
    /\ cache_key(pending[1].request) = cache_key(Val(last.request))
    /\ LET entry == cache[cache_key(Val(last.request))]
       IN  /\ entry # None
           /\ ~Val(entry).expired
           /\ Val(entry).value = Val(last.response)

(***************************************************************************)
(* C17: whatever the interleaving of the requests, no metric update is     *)
(* lost: the request counter of each source is the number of result        *)
(* records of that source over all the dispatches that returned, and the   *)
(* hit and the miss counter are the numbers of lookups that hit and that   *)
(* missed; in particular when nothing is in flight any more.               *)
(***************************************************************************)
C17_NoLostMetricUpdate ==
    /\ \A s \in SourceLabels : scrape_counter[s] = ledger.records[s]
    /\ cache_hits = ledger.hits
    /\ cache_misses = ledger.misses

\* two dispatches that both asked wikipedia have returned; nothing is in flight
C17_Witness ==
    /\ pending = <<>>
    /\ received = 2
    /\ ledger.misses = 2
    /\ cache_misses = 2
    /\ ledger.records[wikipedia] = 2
    /\ scrape_counter[wikipedia] = 2
    /\ ledger.records[pubmed] = 1
    /\ scrape_counter[pubmed] = 1

(***************************************************************************)
(* C18: a response served from the cache has one record for each source    *)
(* the request it answers resolves to, in that order, and no other: an     *)
(* entry is never served to a request with another source selection.       *)
(***************************************************************************)
C18_EntryServedToSameSelection ==
    last.kind = "hit" =>
        LET resolved == Resolve(Val(last.request).sources)
            r == Val(last.response)
        IN  /\ Len(r.results) = Len(resolved)
            /\ \A j \in 1..Len(resolved) : r.results[j].source = resolved[j]

(***************************************************************************)
(* C19: a request that missed and is answered with the degraded response   *)
(* leaves the cache as it was: when the orchestrator cannot be created the *)
(* miss counter grows by one, nothing is stored and the key still holds no *)
(* servable entry; when scrape_all_sources raises, neither the cache nor a *)
(* counter changes (the miss was counted once, on arrival).  The same      *)
(* request arriving next, with still no servable entry under its key, is   *)
(* counted as a miss again and dispatched afresh.                          *)
(***************************************************************************)
C19_DegradedLeavesCacheUnchanged ==
    [][ /\ (Arrival /\ pending' = pending /\ last'.kind = "degraded")
            => /\ cache' = cache
               /\ cache_misses' = cache_misses + 1
               /\ cache_hits' = cache_hits
               /\ CacheGet(cache', cache_key(Arrived)) = None
        /\ (Len(pending') < Len(pending) /\ last'.kind = "degraded")
            => /\ cache' = cache
               /\ UNCHANGED <<cache_hits, cache_misses>>
        /\ (RepeatsLast /\ last.kind = "degraded"
                        /\ CacheGet(cache, cache_key(Arrived)) = None)
            => /\ cache_misses' = cache_misses + 1
               /\ cache_hits' = cache_hits
               /\ Dispatches \/ last'.fault = "orchestrator" ]_vars

\* a request was answered with the degraded response; the same request has
\* missed again and is being dispatched; nothing was stored
C19_Witness ==
    /\ last.kind = "degraded"
    /\ Len(pending) = 1
    /\ pending[1].request = Val(last.request)
    /\ received = 2
    /\ cache_misses = 2
    /\ cache_hits = 0
    /\ \A k \in CacheKeys : cache[k] = None

\* every dispatched source failed: success false, with records
AllFailed(r) == ~r.success /\ r.results # <<>>

(***************************************************************************)
(* C20: a freshly aggregated response in which every dispatched source     *)
(* failed is stored under the key of its request, and the same request     *)
(* arriving next, before the TTL elapses, receives that same response from *)
(* the cache: a hit, with no dispatch and no per-source metric moved.      *)
(***************************************************************************)
C20_AllFailedResponseIsCached ==
    [][ /\ (Len(pending') < Len(pending) /\ last'.kind = "fresh"
                                         /\ AllFailed(Val(last'.response)))
            => cache'[cache_key(Val(last'.request))]
                  = Some([value |-> Val(last'.response), expired |-> FALSE])
        /\ (RepeatsLast /\ last.kind = "fresh" /\ AllFailed(Val(last.response))
                        /\ NotExpired(cache_key(Arrived)))
            => /\ last'.kind = "hit"
               /\ last'.response = last.response
               /\ cache_hits' = cache_hits + 1
               /\ cache_misses' = cache_misses
               /\ NoScraperInvoked ]_vars

\* both sources failed once; the repeat was served that response from the cache
C20_Witness ==
    /\ last.kind = "hit"
    /\ received = 2
    /\ cache_hits = 1
    /\ cache_misses = 1
    /\ AllFailed(Val(last.response))
    /\ Val(last.response).total_sources = 2
    /\ Val(last.response).successful_sources = 0
    /\ scrape_counter[wikipedia] = 1
    /\ scrape_counter[pubmed] = 1

====
